---- MODULE Spec2Model ----
(***************************************************************************)
(* wagtailimportexport/exporting.py: export of a page subtree.             *)
(*                                                                         *)
(* export_pages selects the candidate pages of a root, build_page_data     *)
(* walks them (and, with include_linked_assets, the objects every admitted *)
(* page refers to, recursing into linked pages).  The call stack of        *)
(* build_page_data is explicit; exported_paths and page_data are the one   *)
(* list and the one dict that every nested call receives and mutates.      *)
(***************************************************************************)
EXTENDS Integers, Sequences, FiniteSets

(* ------------------------------ bounds --------------------------------- *)

\* total number of attributes (fields) that the page rows of the database hold
MaxFields == 2

\* number of pages of the tree that are not live
MaxUnpublished == 1

\* number of items of the stream data handed to the block walker
MaxBlocks == 2

(* --------------------------- the page tree ----------------------------- *)

\* Page.steplen: the number of characters of one step of a treebeard path
StepLen == 4

\* The tree, indexed by primary key: the steps from the top of the tree down
\* to the page.  Page 1 is the top; 3 and 2 are its children, in this order;
\* 4 is the child of 3.  Primary keys are not in path order.
TreeSteps == << <<1>>, <<1, 2>>, <<1, 1>>, <<1, 1, 1>> >>

Pages == 1..Len(TreeSteps)

\* one step of a path: StepLen characters, zero-padded ("0001", "0002")
Step(n) == [j \in 1..StepLen |-> IF j = StepLen THEN n ELSE 0]

RECURSIVE JoinSteps(_)
JoinSteps(steps) ==
    IF steps = <<>> THEN <<>> ELSE Step(Head(steps)) \o JoinSteps(Tail(steps))

\* page.path
PagePath(p) == JoinSteps(TreeSteps[p])

\* str.startswith
StartsWith(s, prefix) ==
    /\ Len(prefix) <= Len(s)
    /\ SubSeq(s, 1, Len(prefix)) = prefix

\* the order of two paths as strings
RECURSIVE PathLess(_, _)
PathLess(a, b) ==
    IF a = <<>> THEN b # <<>>
    ELSE IF b = <<>> THEN FALSE
    ELSE IF Head(a) # Head(b) THEN Head(a) < Head(b)
    ELSE PathLess(Tail(a), Tail(b))

\* descendant_of without the root itself
DescendantOfExclusive(root, inclusive) ==
    {p \in Pages : /\ StartsWith(PagePath(p), PagePath(root))
                   /\ p # root}

\* Page.objects.descendant_of(root_page, inclusive=True)
DescendantOf(root, inclusive) ==
    {p \in Pages : /\ StartsWith(PagePath(p), PagePath(root))
                   /\ (inclusive \/ p # root)}

\* .order_by('path')
RECURSIVE OrderByPath(_)
OrderByPath(S) ==
    IF S = {} THEN <<>>
    ELSE LET first == CHOOSE p \in S :
                        \A q \in S \ {p} : PathLess(PagePath(p), PagePath(q))
         IN  <<first>> \o OrderByPath(S \ {first})

\* page.path[:-1]: one character dropped instead of one step
ParentPathOneChar(path) == SubSeq(path, 1, Len(path) - 1)

\* page.path[:-(Page.steplen)]
ParentPath(path) == SubSeq(path, 1, Len(path) - StepLen)

\* x in list
InSeq(x, s) == \E j \in 1..Len(s) : s[j] = x

(* ------------------------ the objects pages refer to ------------------- *)

\* the primary keys that exist in the store of each model; "User" is a model
\* that is neither a page nor an image, a document or a snippet
Store(model) ==
    IF model = "Page" THEN Pages
    ELSE IF model \in {"Image", "Document", "Snippet", "User"} THEN {1}
    ELSE {}

SNIPPET_MODELS == {"Snippet"}

\* One attribute of page.__dict__.  kind "fk": the attribute is named
\* <field>_id and <field> is a ForeignKey of the page's class; value is <<>>
\* for None and <<pk>> otherwise.  kind "stream": the attribute holds a
\* StreamValue whose stream_data is data.
FkField(model, value) ==
    [kind |-> "fk", model |-> model, value |-> value, data |-> <<>>]

StreamField(data) ==
    [kind |-> "stream", model |-> "StreamValue", value |-> <<>>, data |-> data]

Field ==
    {FkField(m, <<k>>) : m \in {"Page"}, k \in Store("Page")}
      \cup {FkField(m, <<1>>) : m \in {"Image", "Document", "Snippet", "User"}}
      \cup {FkField(m, <<0>>) : m \in {"Page", "Image"}}
      \cup {FkField("Image", <<>>)}
      \cup {StreamField(<<[type |-> "image", value |-> 1]>>)}

\* The names bound at module level when a function of the module runs.
ModuleGlobals ==
    {"export_pages", "build_page_data", "walk_page_foreign_key_objects",
     "walk_stream_foreign_key_objects", "walk_block_foreign_key_objects",
     "get_one_page_data", "get_one_image_data", "get_one_snippet_data",
     "get_one_document_data", "Image", "Document", "SNIPPET_MODELS",
     "CHOOSER_BLOCKS", "Page", "json", "re"}

Yield(model, pk) == [tag |-> "yield", what |-> model, pk |-> pk]
Raise(error) == [tag |-> "raise", what |-> error, pk |-> 0]
NoObject == [tag |-> "none", what |-> "", pk |-> 0]

\* a walker that passes over a foreign key whose row does not exist
WalkFieldSkipsMissing(f) ==
    IF f.kind = "fk" /\ f.value # <<>>
    THEN IF f.value[1] \in Store(f.model)
         THEN Yield(f.model, f.value[1])
         ELSE NoObject
    ELSE IF f.kind = "stream"
    THEN Raise("NameError")
    ELSE NoObject

\* walk_page_foreign_key_objects: what one attribute of the page gives
WalkField(f) ==
    IF f.kind = "fk" /\ f.value # <<>>
    THEN IF f.value[1] \in Store(f.model)
         THEN Yield(f.model, f.value[1])
         ELSE Raise("DoesNotExist")
    ELSE IF f.kind = "stream"
    THEN IF "stream_value" \in ModuleGlobals
         THEN NoObject
         ELSE Raise("NameError")
    ELSE NoObject

\* get_one_page_data
get_one_page_data(p, isLive) ==
    [content |-> [pk |-> p, path |-> PagePath(p), live |-> isLive],
     model |-> "page",
     app_label |-> "wagtailcore"]

\* the paths of a list of page records
RecordPaths(records) == [j \in 1..Len(records) |-> records[j].content.path]

(* ------------------------------- state --------------------------------- *)

VARIABLES
    root_page,              \* export_pages argument: the root of the export
    export_unpublished,     \* export_pages argument
    include_linked_assets,  \* export_pages argument
    live,                   \* database: page.live of every page
    page_dict,              \* database: page.__dict__, as far as it has been read
    loaded,                 \* the pages whose __dict__ has been read to its end
    stack,                  \* the active calls of build_page_data, innermost last
    exported_paths,         \* the list exported_paths shared by all calls
    page_data,              \* the dict page_data shared by all calls
    status,                 \* where export_pages is, or how it ended
    stream_data,            \* walk_stream_foreign_key_objects argument, called on its own
    yielded,                \* what that call has yielded, and how it ended
    linking,                \* a page and the two pages it links to, for two runs compared
    exports                 \* the outcomes of those two runs

vars == <<root_page, export_unpublished, include_linked_assets, live, loaded,
          page_dict, stack, exported_paths, page_data, status,
          stream_data, yielded, linking, exports>>

\* the state of the calls made apart from a run of export_pages
aux == <<stream_data, yielded, linking, exports>>

NoCall == [objects |-> <<>>, ended |-> "not called"]
NoLinking == [page |-> 0, first |-> 0, second |-> 0]

inputs == <<root_page, export_unpublished, include_linked_assets, live>>

\* build_page_data calls that can be active at once before the interpreter
\* raises RecursionError; a recursion that revisits no page stays below it
RecursionLimit == MaxFields + 2

EmptyPageData == [pages |-> <<>>, images |-> <<>>, snippets |-> <<>>, documents |-> <<>>]

\* one active call of build_page_data: its pages argument, the index i of
\* enumerate(pages), where it is ("loop": at the head of the for loop;
\* "walk": inside the loop over walk_page_foreign_key_objects(page), k
\* attributes of the page consumed) and its local linked_pages
Frame(pages) == [pages |-> pages, i |-> 0, pc |-> "loop", k |-> 0, linked_pages |-> <<>>]

Top == stack[Len(stack)]
SetTop(frame) == [stack EXCEPT ![Len(stack)] = frame]
CurrentPage == Top.pages[Top.i + 1]

FieldsInUse == LET RECURSIVE Sum(_)
                   Sum(S) == IF S = {} THEN 0
                             ELSE LET p == CHOOSE q \in S : TRUE
                                  IN  Len(page_dict[p]) + Sum(S \ {p})
               IN  Sum(Pages)

Init ==
    /\ root_page \in Pages
    /\ export_unpublished \in BOOLEAN
    /\ include_linked_assets \in BOOLEAN
    /\ live \in {l \in [Pages -> BOOLEAN] :
                   Cardinality({p \in Pages : ~l[p]}) <= MaxUnpublished}
    /\ loaded = {}
    /\ page_dict = [p \in Pages |-> <<>>]
    /\ stack = <<>>
    /\ exported_paths = <<>>
    /\ page_data = EmptyPageData
    /\ status = "called"
    /\ stream_data = <<>>
    /\ yielded = NoCall
    /\ linking = NoLinking
    /\ exports = <<>>

(* ----------------------------- export_pages ---------------------------- *)

\* the queryset filtered to live pages whatever export_unpublished is
CandidatePagesLiveOnly(root, unpublished, isLive) ==
    OrderByPath({p \in DescendantOf(root, TRUE) : isLive[p]})

\* the queryset pages of export_pages, as a list
CandidatePages(root, unpublished, isLive) ==
    LET descendants == DescendantOf(root, TRUE)
    IN  OrderByPath(IF ~unpublished
                    THEN {p \in descendants : isLive[p]}
                    ELSE descendants)

\* export_pages up to the call of build_page_data, which starts with fresh
\* exported_paths and page_data
ExportPages ==
    /\ status = "called"
    /\ stack' = <<Frame(CandidatePages(root_page, export_unpublished, live))>>
    /\ exported_paths' = <<>>
    /\ page_data' = EmptyPageData
    /\ status' = "building"
    /\ UNCHANGED aux
    /\ UNCHANGED <<inputs, loaded, page_dict>>

\* export_pages returning page_data whatever include_linked_assets is
ExportOutcomeAlwaysReturns(linked_assets) == "returned"

\* how export_pages ends once build_page_data has returned
ExportOutcome(linked_assets) ==
    IF ~linked_assets THEN "returned" ELSE "NotImplementedError"

(* --------------------------- build_page_data --------------------------- *)

\* the condition without its test of the page's own path
AdmitsWithoutSeenTest(i, path, exported) ==
    \/ i = 0
    \/ InSeq(ParentPath(path), exported)

\* the condition under which the loop admits pages[i]
Admits(i, path, exported) ==
    \/ i = 0
    \/ /\ InSeq(ParentPath(path), exported)
       /\ ~InSeq(path, exported)

\* a guard that is always taken
FollowsAssetsAlways(linked_assets) == TRUE

\* `if include_linked_assets == True`
FollowsAssets(linked_assets) == linked_assets = TRUE

\* The page at index i is admitted: its record and its path are appended.
\* With include_linked_assets the call goes on to walk the page's attributes;
\* without, to the next i.
AdmitPage ==
    /\ status = "building"
    /\ Top.pc = "loop"
    /\ Top.i < Len(Top.pages)
    /\ Admits(Top.i, PagePath(CurrentPage), exported_paths)
    /\ page_data' = [page_data EXCEPT
                       !.pages = Append(@, get_one_page_data(CurrentPage, live[CurrentPage]))]
    /\ exported_paths' = Append(exported_paths, PagePath(CurrentPage))
    /\ IF FollowsAssets(include_linked_assets)
       THEN stack' = SetTop([Top EXCEPT !.pc = "walk", !.k = 0, !.linked_pages = <<>>])
       ELSE stack' = SetTop([Top EXCEPT !.i = @ + 1])
    /\ UNCHANGED aux
    /\ UNCHANGED <<inputs, loaded, page_dict, status>>

\* The page at index i is skipped.
SkipPage ==
    /\ status = "building"
    /\ Top.pc = "loop"
    /\ Top.i < Len(Top.pages)
    /\ ~Admits(Top.i, PagePath(CurrentPage), exported_paths)
    /\ stack' = SetTop([Top EXCEPT !.i = @ + 1])
    /\ UNCHANGED aux
    /\ UNCHANGED <<inputs, loaded, page_dict, exported_paths, page_data, status>>

Walking ==
    /\ status = "building"
    /\ Top.pc = "walk"

\* The attribute the walker's loop over page.__dict__ comes to next: the one
\* read at this position before or, on a page not yet read to its end, any
\* attribute the database may hold there.
NextFields ==
    IF Top.k < Len(page_dict[CurrentPage])
    THEN {page_dict[CurrentPage][Top.k + 1]}
    ELSE IF CurrentPage \notin loaded /\ FieldsInUse < MaxFields
    THEN Field
    ELSE {}

Read(f) ==
    page_dict' = IF Top.k < Len(page_dict[CurrentPage])
                 THEN page_dict
                 ELSE [page_dict EXCEPT ![CurrentPage] = Append(@, f)]

\* the name of the serializer the loop body calls for a yielded object, ""
\* when the object is of no collected kind
SerializerFor(model) ==
    IF model = "Image" THEN "get_image_data"
    ELSE IF model = "Document" THEN "get_document_data"
    ELSE IF model \in SNIPPET_MODELS THEN "get_snippet_data"
    ELSE ""

\* The walker raises on the next attribute (a dangling foreign key, the
\* undefined stream_value): the exception leaves every active call.
WalkRaises ==
    /\ Walking
    /\ \E f \in NextFields :
         /\ WalkField(f).tag = "raise"
         /\ Read(f)
         /\ status' = WalkField(f).what
    /\ UNCHANGED aux
    /\ UNCHANGED <<inputs, loaded, stack, exported_paths, page_data>>

\* The next attribute refers to nothing: the walker moves on.
WalkPasses ==
    /\ Walking
    /\ \E f \in NextFields :
         /\ WalkField(f).tag = "none"
         /\ Read(f)
    /\ stack' = SetTop([Top EXCEPT !.k = @ + 1])
    /\ UNCHANGED aux
    /\ UNCHANGED <<inputs, loaded, exported_paths, page_data, status>>

\* The walker yields an image, a document or a snippet: the loop body calls
\* the serializer of its kind, a name that is not defined.
CollectAsset ==
    /\ Walking
    /\ \E f \in NextFields :
         /\ WalkField(f).tag = "yield"
         /\ SerializerFor(WalkField(f).what) # ""
         /\ SerializerFor(WalkField(f).what) \notin ModuleGlobals
         /\ Read(f)
    /\ status' = "NameError"
    /\ UNCHANGED aux
    /\ UNCHANGED <<inputs, loaded, stack, exported_paths, page_data>>

\* The walker yields a page and build_page_data is called on it at once,
\* before the remaining attributes of the page are walked.
CollectLinkedPageEager ==
    /\ Walking
    /\ Len(stack) < RecursionLimit
    /\ \E f \in NextFields :
         /\ WalkField(f).tag = "yield"
         /\ WalkField(f).what = "Page"
         /\ Read(f)
         /\ stack' = Append(SetTop([Top EXCEPT !.k = @ + 1]),
                            Frame(<<WalkField(f).pk>>))
    /\ UNCHANGED aux
    /\ UNCHANGED <<inputs, loaded, exported_paths, page_data, status>>

\* The walker yields a page: it is appended to linked_pages.
CollectLinkedPage ==
    /\ Walking
    /\ \E f \in NextFields :
         /\ WalkField(f).tag = "yield"
         /\ WalkField(f).what = "Page"
         /\ Read(f)
         /\ stack' = SetTop([Top EXCEPT !.k = @ + 1,
                                        !.linked_pages = Append(@, WalkField(f).pk)])
    /\ UNCHANGED aux
    /\ UNCHANGED <<inputs, loaded, exported_paths, page_data, status>>

\* The walker yields an object of another model: no branch takes it.
IgnoreObject ==
    /\ Walking
    /\ \E f \in NextFields :
         /\ WalkField(f).tag = "yield"
         /\ WalkField(f).what # "Page"
         /\ SerializerFor(WalkField(f).what) = ""
         /\ Read(f)
    /\ stack' = SetTop([Top EXCEPT !.k = @ + 1])
    /\ UNCHANGED aux
    /\ UNCHANGED <<inputs, loaded, exported_paths, page_data, status>>

\* a call that leaves exported_paths out, so that the callee starts a new list
ExportedPathsFresh(paths) == <<>>

\* `exported_paths=exported_paths`: the callee is handed the caller's list
ExportedPathsArg(paths) == paths

\* The walker is exhausted (the page's __dict__ has no further attribute):
\* build_page_data is called on linked_pages with the same exported_paths
\* and page_data; the caller resumes at the next i.
RecurseIntoLinkedPages ==
    /\ Walking
    /\ Top.k = Len(page_dict[CurrentPage])
    /\ loaded' = loaded \cup {CurrentPage}
    /\ IF Len(stack) < RecursionLimit
       THEN /\ stack' = Append(SetTop([Top EXCEPT !.pc = "loop", !.i = @ + 1]),
                               Frame(Top.linked_pages))
            /\ exported_paths' = ExportedPathsArg(exported_paths)
            /\ UNCHANGED status
       ELSE /\ status' = "RecursionError"
            /\ UNCHANGED <<stack, exported_paths>>
    /\ UNCHANGED aux
    /\ UNCHANGED <<inputs, page_dict, page_data>>

\* The for loop of the innermost call is over: it returns page_data, to its
\* caller or, from the outermost call, to export_pages, which then ends.
ReturnPageData ==
    /\ status = "building"
    /\ Top.pc = "loop"
    /\ Top.i = Len(Top.pages)
    /\ stack' = SubSeq(stack, 1, Len(stack) - 1)
    /\ status' = IF Len(stack) = 1 THEN ExportOutcome(include_linked_assets) ELSE status
    /\ UNCHANGED aux
    /\ UNCHANGED <<inputs, loaded, page_dict, exported_paths, page_data>>

Next ==
    \/ ExportPages
    \/ AdmitPage
    \/ SkipPage
    \/ WalkRaises
    \/ WalkPasses
    \/ CollectAsset
    \/ CollectLinkedPage
    \/ IgnoreObject
    \/ RecurseIntoLinkedPages
    \/ ReturnPageData

Spec == Init /\ [][Next]_vars

(* -------------------- walk_stream_foreign_key_objects ------------------ *)

\* stream_block.child_blocks: the block class registered under each type name
ChildBlocks ==
    [image |-> "ImageChooserBlock", page |-> "PageChooserBlock",
     document |-> "DocumentChooserBlock", snippet |-> "SnippetChooserBlock",
     text |-> "CharBlock", section |-> "StructBlock", body |-> "StreamBlock"]

CHOOSER_BLOCKS ==
    {"PageChooserBlock", "ImageChooserBlock", "DocumentChooserBlock", "SnippetChooserBlock"}

\* the model a chooser block refers to
TargetModel(block) ==
    IF block = "PageChooserBlock" THEN "Page"
    ELSE IF block = "ImageChooserBlock" THEN "Image"
    ELSE IF block = "DocumentChooserBlock" THEN "Document"
    ELSE "Snippet"

\* block.value_from_form(block_data['value']): the object with that key
ValueFromForm(block, value) == [model |-> TargetModel(block), pk |-> value]

\* One item of stream data: its type name, the stored key of a chooser
\* (0 otherwise) and, for a structural or a stream block, the items inside.
Item(type, value, children) == [type |-> type, value |-> value, children |-> children]

LeafItems ==
    {Item(t, 1, <<>>) : t \in {"image", "page", "document", "snippet"}}
      \cup {Item("text", 0, <<>>)}

\* the structural and stream blocks that hold nothing or one of the items
ContainersOf(items) ==
    {Item(t, 0, c) : t \in {"section", "body"}, c \in {<<>>} \cup {<<it>> : it \in items}}

Items == LeafItems \cup ContainersOf(LeafItems) \cup ContainersOf(ContainersOf(LeafItems))

\* the stream data of at most n items
RECURSIVE StreamDatas(_)
StreamDatas(n) ==
    IF n = 0 THEN {<<>>}
    ELSE LET shorter == StreamDatas(n - 1)
         IN  shorter \cup {Append(d, it) : d \in shorter, it \in Items}

None == "None"

\* walk_block_foreign_key_objects: its body is `pass`
walk_block_foreign_key_objects(struct_block, struct_data) == None

\* walk_stream_foreign_key_objects from item n on, objects yielded so far:
\* the objects the generator yields and how it ends
RECURSIVE WalkStreamFrom(_, _, _)
WalkStreamFrom(data, n, objects) ==
    IF n > Len(data) THEN [objects |-> objects, ended |-> "exhausted"]
    ELSE LET block_data == data[n]
             block == ChildBlocks[block_data.type]
         IN  IF block \in CHOOSER_BLOCKS
             THEN WalkStreamFrom(data, n + 1,
                                 Append(objects, ValueFromForm(block, block_data.value)))
             ELSE IF block = "StructBlock" \/ block = "StreamBlock"
             THEN LET inner == walk_block_foreign_key_objects(block, block_data)
                  IN  IF inner = None
                      THEN [objects |-> objects, ended |-> "TypeError"]
                      ELSE WalkStreamFrom(data, n + 1, objects \o inner)
             ELSE WalkStreamFrom(data, n + 1, objects)

walk_stream_foreign_key_objects(data) == WalkStreamFrom(data, 1, <<>>)

\* walk_stream_foreign_key_objects called on its own, on any stream data
InitBlocks ==
    /\ root_page = 1
    /\ export_unpublished = FALSE
    /\ include_linked_assets = TRUE
    /\ live = [p \in Pages |-> TRUE]
    /\ loaded = {}
    /\ page_dict = [p \in Pages |-> <<>>]
    /\ stack = <<>>
    /\ exported_paths = <<>>
    /\ page_data = EmptyPageData
    /\ status = "not called"
    /\ stream_data \in StreamDatas(MaxBlocks)
    /\ yielded = NoCall
    /\ linking = NoLinking
    /\ exports = <<>>

\* the generator is run to its end
WalkStream ==
    /\ yielded = NoCall
    /\ status = "not called"
    /\ yielded' = walk_stream_foreign_key_objects(stream_data)
    /\ UNCHANGED <<inputs, loaded, page_dict, stack, exported_paths, page_data,
                   status, stream_data, linking, exports>>

NextBlocks == WalkStream

SpecBlocks == InitBlocks /\ [][NextBlocks]_vars

(* ------------------- build_page_data, run as a whole ------------------- *)

\* exported_paths and the pages of page_data of a run, and how it stands
EmptyRun == [paths |-> <<>>, pages |-> <<>>, ended |-> "running"]

\* build_page_data with include_linked_assets on pages whose only references
\* are the pages links[page], in the order the walker yields them: the loop
\* from index i on, in the call at nesting `depth`, on the accumulators acc.
\* An exception (acc.ended other than "running") leaves every loop.
RECURSIVE BuildFrom(_, _, _, _, _)
BuildFrom(links, pages, i, acc, depth) ==
    IF acc.ended # "running" \/ i = Len(pages) THEN acc
    ELSE LET page == pages[i + 1]
         IN  IF Admits(i, PagePath(page), acc.paths)
             THEN LET admitted == [acc EXCEPT !.paths = Append(@, PagePath(page)),
                                              !.pages = Append(@, page)]
                      after == IF depth < RecursionLimit
                               THEN BuildFrom(links, links[page], 0, admitted, depth + 1)
                               ELSE [admitted EXCEPT !.ended = "RecursionError"]
                  IN  BuildFrom(links, pages, i + 1, after, depth)
             ELSE BuildFrom(links, pages, i + 1, acc, depth)

\* the outermost call, made by export_pages, and its outcome
BuildPageData(links, root, unpublished, isLive) ==
    LET run == BuildFrom(links, CandidatePages(root, unpublished, isLive), 0, EmptyRun, 1)
    IN  IF run.ended = "running" THEN [run EXCEPT !.ended = "returned"] ELSE run

\* the references of the pages when linking.page yields first, then second
LinksInOrder(first, second) ==
    [p \in Pages |-> IF p = linking.page THEN <<first, second>> ELSE <<>>]

\* Two runs on the same tree are compared: one page links to two distinct
\* pages and the walker yields them in one order or in the other.
InitOrder ==
    /\ root_page \in Pages
    /\ export_unpublished \in BOOLEAN
    /\ include_linked_assets = TRUE
    /\ live \in {l \in [Pages -> BOOLEAN] :
                   Cardinality({p \in Pages : ~l[p]}) <= MaxUnpublished}
    /\ loaded = {}
    /\ page_dict = [p \in Pages |-> <<>>]
    /\ stack = <<>>
    /\ exported_paths = <<>>
    /\ page_data = EmptyPageData
    /\ status = "not called"
    /\ stream_data = <<>>
    /\ yielded = NoCall
    /\ linking \in {l \in [page : Pages, first : Pages, second : Pages] :
                       l.first # l.second}
    /\ exports = <<>>

\* the run in which the walker yields linking.first before linking.second
RunInOrder ==
    /\ linking # NoLinking
    /\ exports = <<>>
    /\ exports' = <<BuildPageData(LinksInOrder(linking.first, linking.second),
                                  root_page, export_unpublished, live)>>
    /\ UNCHANGED <<inputs, loaded, page_dict, stack, exported_paths, page_data,
                   status, stream_data, yielded, linking>>

\* the run in which it yields linking.second before linking.first
RunInReverseOrder ==
    /\ linking # NoLinking
    /\ Len(exports) = 1
    /\ exports' = Append(exports,
                         BuildPageData(LinksInOrder(linking.second, linking.first),
                                       root_page, export_unpublished, live))
    /\ UNCHANGED <<inputs, loaded, page_dict, stack, exported_paths, page_data,
                   status, stream_data, yielded, linking>>

NextOrder == RunInOrder \/ RunInReverseOrder

SpecOrder == InitOrder /\ [][NextOrder]_vars

(* ------------------------ vocabulary of the claims --------------------- *)

Records == page_data.pages

\* page a is page p or an ancestor of p, read off the tree
AncestorOrSelf(a, p) ==
    /\ Len(TreeSteps[a]) <= Len(TreeSteps[p])
    /\ \A j \in 1..Len(TreeSteps[a]) : TreeSteps[a][j] = TreeSteps[p][j]

Subtree(root) == {p \in Pages : AncestorOrSelf(root, p)}

\* the pages between root and p, both included
Lineage(root, p) == {a \in Pages : AncestorOrSelf(root, a) /\ AncestorOrSelf(a, p)}

HasRecord(p) == \E j \in 1..Len(Records) : Records[j].content.pk = p

Occurrences(x, s) == Cardinality({j \in 1..Len(s) : s[j] = x})

AscendingPaths(records) ==
    \A j, k \in 1..Len(records) :
        j < k => PathLess(records[j].content.path, records[k].content.path)

\* the attribute is a non-null foreign key whose row does not exist
IsDangling(f) ==
    /\ f.kind = "fk"
    /\ f.value # <<>>
    /\ f.value[1] \notin Store(f.model)

\* the attribute refers to an existing image, document or snippet, directly
\* or through a chooser block
RefersToAsset(f) ==
    \/ /\ f.kind = "fk"
       /\ f.model \in {"Image", "Document", "Snippet"}
       /\ f.value # <<>>
       /\ ~IsDangling(f)
    \/ /\ f.kind = "stream"
       /\ f.data # <<>>

\* the key of page_data that holds the records of the attribute's asset
CollectionOf(f) ==
    IF f.kind = "stream" THEN "images"
    ELSE IF f.model = "Image" THEN "images"
    ELSE IF f.model = "Document" THEN "documents"
    ELSE "snippets"

\* page q is known to hold a foreign key to page p
LinksTo(q, p) ==
    \E j \in 1..Len(page_dict[q]) : page_dict[q][j] = FkField("Page", <<p>>)

(* -------------------------------- claims ------------------------------- *)

\* C1 (as claimed): every record in page_data['pages'] of a page other than
\* root_page has its parent path among the paths of the records.
C1_NoOrphans ==
    \A j \in 1..Len(Records) :
        Records[j].content.pk # root_page
            => InSeq(ParentPath(Records[j].content.path), RecordPaths(Records))

\* C2 (as claimed): with export_unpublished=False the returned pages hold no
\* page that is not live and no page with an unpublished ancestor in the
\* exported subtree, the root included.
C2_CascadingPruning ==
    (status = "returned" /\ ~export_unpublished)
        => \A j \in 1..Len(Records) :
               \A a \in Lineage(root_page, Records[j].content.pk) : live[a]

\* C3 (as claimed): with include_linked_assets, a page of the root's subtree
\* that an exported page links to never has more than one record or more than
\* one entry in exported_paths, and has exactly one of each once
\* build_page_data has run to its end.
C3_ExportedOnce ==
    include_linked_assets
        => \A p \in Subtree(root_page) :
               (\E q \in Pages : HasRecord(q) /\ q \in loaded /\ LinksTo(q, p))
                   => /\ Occurrences(PagePath(p), RecordPaths(Records)) <= 1
                      /\ Occurrences(PagePath(p), exported_paths) <= 1
                      /\ (stack = <<>> =>
                            /\ Occurrences(PagePath(p), RecordPaths(Records)) = 1
                            /\ Occurrences(PagePath(p), exported_paths) = 1)

C6_RootFirst ==
    status = "returned"
        => /\ Records # <<>>
           /\ Records[1].content.pk = root_page

\* C6 (amended): whenever export_pages returns and export_unpublished is true
\* or the root is live, root_page is the first record of the pages list.
C6_RootFirstWhenCandidate ==
    (status = "returned" /\ (export_unpublished \/ live[root_page]))
        => /\ Records # <<>>
           /\ Records[1].content.pk = root_page
           /\ Occurrences(PagePath(root_page), RecordPaths(Records)) = 1

C6_Witness ==
    /\ status = "returned"
    /\ export_unpublished
    /\ ~live[root_page]
    /\ Len(Records) >= 2
    /\ Records[1].content.pk = root_page

\* C7: export_unpublished=True without linked assets returns the root and
\* every descendant of the root, each exactly once, in ascending path order,
\* whatever the publication state of the pages.
C7_FullExport ==
    (status = "returned" /\ export_unpublished)
        => /\ \A p \in Subtree(root_page) :
                Occurrences(PagePath(p), RecordPaths(Records)) = 1
           /\ Len(Records) = Cardinality(Subtree(root_page))
           /\ AscendingPaths(Records)

C7_Witness ==
    /\ status = "returned"
    /\ export_unpublished
    /\ root_page = 1
    /\ \E p \in Pages : ~live[p]
    /\ [j \in 1..Len(Records) |-> Records[j].content.pk] = <<1, 3, 4, 2>>

\* C8: export_unpublished=False without linked assets, on a live root,
\* returns every page of the subtree that is live and whose ancestors up to
\* the root are all live, in ascending path order.
C8_PublishedComplete ==
    (status = "returned" /\ ~export_unpublished /\ live[root_page])
        => /\ \A p \in Subtree(root_page) :
                (\A a \in Lineage(root_page, p) : live[a]) => HasRecord(p)
           /\ AscendingPaths(Records)

C8_Witness ==
    /\ status = "returned"
    /\ ~export_unpublished
    /\ root_page = 1
    /\ ~live[3]
    /\ [j \in 1..Len(Records) |-> Records[j].content.pk] = <<1, 2>>

\* C9 (as claimed): with include_linked_assets, once the walker has come to an
\* attribute of an exported page that refers to an image, a document or a
\* snippet, the run has not failed and the matching collection of page_data
\* holds a record.
C9_AssetsCollected ==
    include_linked_assets
        => \A p \in Pages : \A j \in 1..Len(page_dict[p]) :
               RefersToAsset(page_dict[p][j])
                   => /\ status \notin {"NameError", "DoesNotExist", "RecursionError"}
                      /\ page_data[CollectionOf(page_dict[p][j])] # <<>>

\* C10: a dangling foreign key that the walker comes to is never passed
\* over: it is the last attribute read, the run has ended in the lookup
\* failure with all its calls of build_page_data abandoned, and no export set
\* is returned.
C10_DanglingAborts ==
    \A p \in Pages : \A j \in 1..Len(page_dict[p]) :
        IsDangling(page_dict[p][j])
            => /\ j = Len(page_dict[p])
               /\ p \notin loaded
               /\ status = "DoesNotExist"
               /\ stack # <<>>
               /\ Top.pc = "walk" /\ CurrentPage = p /\ Top.k = j - 1

C10_Witness ==
    /\ status = "DoesNotExist"
    /\ Len(stack) >= 2
    /\ IsDangling(page_dict[CurrentPage][Top.k + 1])

\* C11 (as claimed): at every point of a run, every record of page_data['pages']
\* whose parent page has a record comes after a record of its parent.
C11_ParentsFirst ==
    \A j \in 1..Len(Records) :
        InSeq(ParentPath(Records[j].content.path), RecordPaths(Records))
            => \E k \in 1..(j - 1) :
                   Records[k].content.path = ParentPath(Records[j].content.path)

\* C12: with include_linked_assets, when the loop of the outermost call of
\* build_page_data is at a page other than the root whose path is already in
\* exported_paths (put there by the linked-page recursion of an earlier
\* page), its step appends no record and no path.
C12_NoReadmission ==
    [][(/\ include_linked_assets
        /\ status = "building"
        /\ Len(stack) = 1
        /\ Top.pc = "loop"
        /\ Top.i < Len(Top.pages)
        /\ CurrentPage # root_page
        /\ InSeq(PagePath(CurrentPage), exported_paths))
           => (page_data' = page_data /\ exported_paths' = exported_paths)]_vars

C12_Witness ==
    /\ include_linked_assets
    /\ status = "building"
    /\ Len(stack) = 1
    /\ Top.pc = "loop"
    /\ Top.i >= 1
    /\ Top.i < Len(Top.pages)
    /\ CurrentPage # root_page
    /\ InSeq(PagePath(CurrentPage), exported_paths)
    /\ Records[1].content.pk = root_page

\* the objects of all chooser blocks of the data, at any depth, in order
RECURSIVE ChosenObjects(_)
ChosenObjects(data) ==
    IF data = <<>> THEN <<>>
    ELSE LET block == ChildBlocks[Head(data).type]
             here == IF block \in CHOOSER_BLOCKS
                     THEN <<[model |-> TargetModel(block), pk |-> Head(data).value]>>
                     ELSE IF block \in {"StructBlock", "StreamBlock"}
                     THEN ChosenObjects(Head(data).children)
                     ELSE <<>>
         IN  here \o ChosenObjects(Tail(data))

\* C13 (as claimed): walk_stream_foreign_key_objects ends without failing and
\* has yielded the object of every chooser block of the data, at any nesting
\* depth, and nothing else.
C13_WalksNestedBlocks ==
    yielded # NoCall
        => /\ yielded.ended = "exhausted"
           /\ yielded.objects = ChosenObjects(stream_data)

\* C14 (as claimed): the nesting of build_page_data calls stays within what
\* the pages of the tree allow (each page starts at most one nested call) and
\* the run never exhausts the call stack.
C14_BoundedRecursion ==
    /\ Len(stack) <= Cardinality(Pages) + 1
    /\ status # "RecursionError"

C17_AssetsOffUntouched ==
    ~include_linked_assets
        => /\ page_dict = [p \in Pages |-> <<>>]
           /\ loaded = {}
           /\ Len(stack) <= 1
           /\ \A n \in 1..Len(stack) : stack[n].pc = "loop" /\ stack[n].linked_pages = <<>>
           /\ page_data.images = <<>>
           /\ page_data.documents = <<>>
           /\ page_data.snippets = <<>>
           /\ status \in {"called", "building", "returned"}

C17_Witness ==
    /\ ~include_linked_assets
    /\ status = "returned"
    /\ Len(Records) >= 3
    /\ page_data.images = <<>>

\* s is a prefix of t
IsPrefix(s, t) == Len(s) <= Len(t) /\ SubSeq(t, 1, Len(s)) = s

\* C18: exported_paths is at every step the list of the paths of the records
\* of page_data['pages'], entry by entry, and every step leaves both lists as
\* they were or appends to them, also across linked-page recursion.
C18_BookkeepingInStep ==
    [][/\ RecordPaths(Records) = exported_paths
       /\ RecordPaths(Records') = exported_paths'
       /\ IsPrefix(exported_paths, exported_paths')
       /\ IsPrefix(Records, Records')]_vars

C18_Witness ==
    /\ Len(stack) >= 3
    /\ Len(exported_paths) >= 3
    /\ RecordPaths(Records) = exported_paths

\* the set of pages a run has exported
ExportedSet(run) == {run.pages[j] : j \in 1..Len(run.pages)}

\* C16 (as claimed): the run in which the walker yields P before Q and the
\* run in which it yields Q before P export the same set of pages.
C16_OrderIndependent ==
    Len(exports) = 2 => ExportedSet(exports[1]) = ExportedSet(exports[2])

====
